---- MODULE Spec2Model ----
(***************************************************************************)
(* Model of arm_gdb/scb.py: the gdb commands "arm scb" and "arm fpu",      *)
(* which read the memory-mapped System Control Block and FPU registers of  *)
(* a Cortex-M target and print a decoded dump.                             *)
(*                                                                         *)
(* 32-bit words (register values, addresses) are pairs <<hi, lo>> of       *)
(* 16-bit halves, so that every value of the 32-bit range is represented   *)
(* exactly.  Python strings that the code formats, splits or uses as       *)
(* dictionary keys are sequences of one-character strings; an optional     *)
(* value (None or a value) is a sequence of length 0 or 1.                 *)
(***************************************************************************)
EXTENDS Integers, Sequences, FiniteSets, TLC

\* ---------------------------------------------------------------------
\* Bounds of the model
\* ---------------------------------------------------------------------

\* longest modifier string typed after the command name
MaxArgLen == 3

\* raw register images the target memory is filled with: RawWord(0..MaxRaw)
MaxRaw == 1

\* ---------------------------------------------------------------------
\* Python values
\* ---------------------------------------------------------------------

None == <<>>

Some(x) == <<x>>

IsNone(o) == Len(o) = 0

Val(o) == o[1]

Word(hi, lo) == <<hi, lo>>

Pow2(n) == 2 ^ n

RECURSIVE BitAnd(_, _, _)
\* a & b on n-bit naturals
BitAnd(a, b, n) ==
  IF n = 0 THEN 0
  ELSE 2 * BitAnd(a \div 2, b \div 2, n - 1) + (IF a % 2 = 1 /\ b % 2 = 1 THEN 1 ELSE 0)

\* a & b on 32-bit words
And32(a, b) == Word(BitAnd(a[1], b[1], 16), BitAnd(a[2], b[2], 16))

\* w >> n on 32-bit words
Shr32(w, n) ==
  IF n >= 16 THEN Word(0, w[1] \div Pow2(n - 16))
  ELSE Word(w[1] \div Pow2(n), (w[2] \div Pow2(n)) + (w[1] % Pow2(n)) * Pow2(16 - n))

\* (1 << width) - 1 as a 32-bit word
Mask32(width) ==
  IF width >= 16 THEN Word(Pow2(width - 16) - 1, 65535)
  ELSE Word(0, Pow2(width) - 1)

\* the bitfield value of a raw register value: (raw >> offset) & ((1 << width) - 1)
extract(raw, offset, width) == And32(Shr32(raw, offset), Mask32(width))

HexDigits == <<"0", "1", "2", "3", "4", "5", "6", "7", "8", "9", "a", "b", "c", "d", "e", "f">>

\* val rendered as ceil(bits / base) digits of base bits each (base 4: lower
\* case hexadecimal, base 1: binary), most significant digit first
format_int(val, bits, base) ==
  LET n == (bits + base - 1) \div base
  IN  [i \in 1..n |-> HexDigits[(Shr32(val, base * (n - i))[2] % Pow2(base)) + 1]]

RECURSIVE split(_, _)
\* str.split(sep) for a one-character separator
split(s, sep) ==
  IF \A i \in 1..Len(s) : s[i] # sep THEN <<s>>
  ELSE LET k == CHOOSE i \in 1..Len(s) : s[i] = sep /\ \A j \in 1..(i - 1) : s[j] # sep
       IN  <<SubSeq(s, 1, k - 1)>> \o split(SubSeq(s, k + 1, Len(s)), sep)

\* x in list
In(x, list) == \E i \in 1..Len(list) : list[i] = x

\* whether an entry tagged m applies to model: no filtering when model is
\* None, an untagged entry always applies, otherwise the comma-separated tag
\* must name the model
applies(model, m) ==
  \/ IsNone(model)
  \/ IsNone(m)
  \/ In(Val(model), split(Val(m), ","))

RECURSIVE filt(_, _)
\* [item for m, item in items if applies(model, m)]
filt(model, items) ==
  IF Len(items) = 0 THEN <<>>
  ELSE (IF applies(model, items[1][1]) THEN <<items[1][2]>> ELSE <<>>)
       \o filt(model, Tail(items))

\* ---------------------------------------------------------------------
\* Register description records
\* ---------------------------------------------------------------------

NoFields == <<>>

RegisterDef(name, descr, addr, size, fields) ==
  [name |-> name, descr |-> descr, addr |-> addr, size |-> size, fields |-> fields]

FieldBitfield(name, offset, width, descr, always) ==
  [kind |-> "bits", name |-> name, offset |-> offset, width |-> width,
   enum |-> <<>>, descr |-> descr, always |-> always]

FieldBitfieldEnum(name, offset, width, enum, descr) ==
  [kind |-> "enum", name |-> name, offset |-> offset, width |-> width,
   enum |-> enum, descr |-> descr, always |-> FALSE]

FieldBitfieldMap(name, offset, width, descr) ==
  [kind |-> "map", name |-> name, offset |-> offset, width |-> width,
   enum |-> <<>>, descr |-> descr, always |-> FALSE]

\* ---------------------------------------------------------------------
\* The register tables of get_scb_regs and get_fpu_regs
\* ---------------------------------------------------------------------

enum_val_en_dis ==
  << <<0, TRUE, "Normal operation", None>>,
     <<1, FALSE, "Disabled", None>> >>

\* the second entry carrying the match value of the first
CPACR_enum_fields_dup ==
  <<<<0, TRUE, "Access denied", Some("Any attempted access generates a NOCP UsageFault.")>>,
     <<0, TRUE, "Privileged access only.", Some("An unprivileged access generates a NOCP UsageFault.")>>,
     <<2, TRUE, "Reserved.", None>>,
     <<3, TRUE, "Full access.", None>>>>

CPACR_enum_fields ==
  <<<<0, TRUE, "Access denied", Some("Any attempted access generates a NOCP UsageFault.")>>,
     <<1, TRUE, "Privileged access only.", Some("An unprivileged access generates a NOCP UsageFault.")>>,
     <<2, TRUE, "Reserved.", None>>,
     <<3, TRUE, "Full access.", None>>>>

SCB_regs(model) ==
  filt(model, <<
    <<None, RegisterDef("CPUID", "CPUID Base Register", Word(\HE000, \HED00), 4, <<
        FieldBitfieldEnum("Implementer", 24, 8, <<<<65, FALSE, "ARM", None>>>>, Some("Implementer code assigned by Arm")),
        FieldBitfield("Variant", 20, 4, None, FALSE),
        FieldBitfield("Architecture", 16, 4, Some("constant - 1111"), FALSE),
        FieldBitfieldEnum("PartNo", 4, 12, <<<<3104, FALSE, "Cortex-M0", None>>, <<3107, FALSE, "Cortex-M3", None>>, <<3108, FALSE, "Cortex-M4", None>>, <<3111, FALSE, "Cortex-M7", None>>, <<3361, FALSE, "Cortex-M33", None>>>>, None),
        FieldBitfield("Revision", 0, 4, None, FALSE) >>)>>,
    <<None, RegisterDef("ICSR", "Interrupt Control and State Register", Word(\HE000, \HED04), 4, <<
        FieldBitfield("NMIPENDSET", 31, 1, None, FALSE),
        FieldBitfield("PENDSVSET", 28, 1, None, FALSE),
        FieldBitfield("PENDSTSET", 26, 1, None, FALSE),
        FieldBitfield("PENDSTCLR", 25, 1, None, FALSE),
        FieldBitfield("ISRPREEMPT", 23, 1, Some("Indicates whether a pending exception will be serviced on exit from debug halt state"), FALSE),
        FieldBitfield("ISRPENDING", 22, 1, Some("Indicates whether an external interrupt, generated by the NVIC, is pending"), FALSE),
        FieldBitfield("VECTPENDING", 12, 6, Some("The exception number of the highest priority pending and enabled interrupt"), FALSE),
        FieldBitfield("RETTOBASE", 11, 1, Some("In Handler mode, indicates whether there is an active exception other than the exception indicated by the current value of the IPSR"), FALSE),
        FieldBitfield("VECTACTIVE", 0, 8, None, FALSE) >>)>>,
    <<None, RegisterDef("VTOR", "Vector Table Offset Register", Word(\HE000, \HED08), 4, <<
        FieldBitfield("TBLOFF", 7, 25, Some("Bits[31:7] of the vector table address"), FALSE) >>)>>,
    <<None, RegisterDef("AIRCR", "Application Interrupt and Reset Control Register", Word(\HE000, \HED0C), 4, <<
        FieldBitfieldEnum("VECTKEYSTAT", 16, 16, <<<<1530, TRUE, "Register writes must write 0x05FA to this field, otherwise the write is ignored", None>>, <<64005, TRUE, "On reads, returns 0xFA05", None>>>>, None),
        FieldBitfieldEnum("ENDIANNESS", 15, 1, <<<<0, FALSE, "Little Endian", None>>, <<1, FALSE, "Big Endian", None>>>>, None),
        FieldBitfield("PRIGROUP", 8, 3, Some("Priority grouping, indicates the binary point position."), FALSE),
        FieldBitfield("SYSRESETREQ", 2, 1, Some("System Reset Request"), FALSE) >>)>>,
    <<None, RegisterDef("SCR", "System Control Register", Word(\HE000, \HED10), 4, <<
        FieldBitfield("SEVONPEND", 4, 1, Some("Determines whether an interrupt transition from inactive state to pending state is a wakeup event"), FALSE),
        FieldBitfield("SLEEPDEEP", 2, 1, Some("Provides a qualifying hint indicating that waking from sleep might take longer"), FALSE),
        FieldBitfield("SLEEPONEXIT", 1, 1, Some("Determines whether, on an exit from an ISR that returns to the base level of execution priority, the processor enters a sleep state"), FALSE) >>)>>,
    <<None, RegisterDef("CCR", "Configuration and Control Register", Word(\HE000, \HED14), 4, filt(model, <<
        <<Some(<<"M", "7">>), FieldBitfield("BP", 18, 1, Some("Branch prediction enable bit."), FALSE)>>,
        <<Some(<<"M", "7">>), FieldBitfield("IC", 17, 1, Some("Instruction cache enable bit."), FALSE)>>,
        <<Some(<<"M", "7">>), FieldBitfield("DC", 16, 1, Some("Cache enable bit."), FALSE)>>,
        <<Some(<<"M", "3", ",", "M", "7">>), FieldBitfield("STKALIGN", 9, 1, Some("Determines whether the exception entry sequence guarantees 8-byte stack frame alignment"), FALSE)>>,
        <<Some(<<"M", "3", ",", "M", "7">>), FieldBitfieldEnum("BFHFNMIGN", 8, 1, <<<<0, FALSE, "Precise data access fault causes a lockup", None>>, <<1, FALSE, "Handler ignores the fault.", None>>>>, Some("Determines the effect of precise data access faults on handlers running at priority -1 or priority -2"))>>,
        <<Some(<<"M", "3", ",", "M", "7">>), FieldBitfield("DIV_0_TRP", 4, 1, Some("Controls the trap on divide by 0"), FALSE)>>,
        <<Some(<<"M", "3", ",", "M", "7">>), FieldBitfield("UNALIGN_TRP", 3, 1, Some("Controls the trapping of unaligned word or halfword accesses"), FALSE)>>,
        <<Some(<<"M", "3", ",", "M", "7">>), FieldBitfield("USERSETMPEND", 1, 1, Some("Controls whether unprivileged software can access the STIR"), FALSE)>>,
        <<Some(<<"M", "3", ",", "M", "7">>), FieldBitfield("NONBASETHRDENA", 0, 1, Some("Controls whether the processor can enter Thread mode with exceptions active"), FALSE)>> >>))>>,
    <<None, RegisterDef("SHPR1", "System Handler Priority Register 1", Word(\HE000, \HED18), 4, <<
        FieldBitfield("PRI_4 - MemManage", 0, 8, Some("Priority of system handler 4, MemManage."), FALSE),
        FieldBitfield("PRI_5 - BusFault", 8, 8, Some("Priority of system handler 5, BusFault."), FALSE),
        FieldBitfield("PRI_6 - UsageFault", 16, 8, Some("Priority of system handler 6, UsageFault."), FALSE),
        FieldBitfield("PRI_7", 24, 8, Some("Reserved for priority of system handler 7"), FALSE) >>)>>,
    <<None, RegisterDef("SHPR2", "System Handler Priority Register 2", Word(\HE000, \HED1C), 4, <<
        FieldBitfield("PRI_8", 0, 8, Some("Reserved for priority of system handler 8."), FALSE),
        FieldBitfield("PRI_9", 8, 8, Some("Reserved for priority of system handler 9."), FALSE),
        FieldBitfield("PRI_10", 16, 8, Some("Reserved for priority of system handler 10."), FALSE),
        FieldBitfield("PRI_11 - SVCall", 24, 8, Some("Priority of system handler 11, SVCall."), FALSE) >>)>>,
    <<None, RegisterDef("SHPR3", "System Handler Priority Register 3", Word(\HE000, \HED20), 4, <<
        FieldBitfield("PRI_12 - DebugMonitor", 0, 8, Some("Priority of system handler 12, DebugMonitor."), FALSE),
        FieldBitfield("PRI_13", 8, 8, Some("Reserved for priority of system handler 13."), FALSE),
        FieldBitfield("PRI_14 - PendSV", 16, 8, Some("Priority of system handler 14, PendSV."), FALSE),
        FieldBitfield("PRI_15 - SysTick", 24, 8, Some("Priority of system handler 15, SysTick."), FALSE) >>)>>,
    <<None, RegisterDef("SHCSR", "System Handler Control and State Register", Word(\HE000, \HED24), 4, <<
        FieldBitfield("USGFAULTENA", 18, 1, Some("Indicates if UsageFault is enabled."), FALSE),
        FieldBitfield("BUSFAULTENA", 17, 1, Some("Indicates if BusFault is enabled."), FALSE),
        FieldBitfield("MEMFAULTENA", 16, 1, Some("Indicates if MemFault is enabled."), FALSE),
        FieldBitfield("SVCALLPENDED", 15, 1, Some("Indicates if SVCall is pending."), FALSE),
        FieldBitfield("BUSFAULTPENDED", 14, 1, Some("Indicates if BusFault is pending"), FALSE),
        FieldBitfield("MEMFAULTPENDED", 13, 1, Some("Indicates if MemFault is pending"), FALSE),
        FieldBitfield("USGFAULTPENDED", 12, 1, Some("Indicates if UsageFault is pending"), FALSE),
        FieldBitfield("SYSTICKACT", 11, 1, Some("Indicates if SysTick is active"), FALSE),
        FieldBitfield("PENDSVACT", 10, 1, Some("Indicates if PendSV is active"), FALSE),
        FieldBitfield("MONITORACT", 8, 1, Some("Indicates if Monitor is active"), FALSE),
        FieldBitfield("SVCALLACT", 7, 1, Some("Indicates if SVCall is active"), FALSE),
        FieldBitfield("USGFAULTACT", 3, 1, Some("Indicates if UsageFault is active"), FALSE),
        FieldBitfield("BUSFAULTACT", 1, 1, Some("Indicates if BusFault is active"), FALSE),
        FieldBitfield("MEMFAULTACT", 0, 1, Some("Indicates if MemFault is active"), FALSE) >>)>>,
    <<None, RegisterDef("CFSR", "Configurable Fault Status Register", Word(\HE000, \HED28), 4, <<
        FieldBitfield("MMFSR", 0, 8, Some("MemManage Fault Status Register"), TRUE),
        FieldBitfield("MMARVALID", 7, 1, Some("Indicates if MMFAR has valid contents."), FALSE),
        FieldBitfield("MLSPERR", 5, 1, Some("Indicates if a MemManage fault occurred during FP lazy state preservation."), FALSE),
        FieldBitfield("MSTKERR", 4, 1, Some("Indicates if a derived MemManage fault occurred on exception entry."), FALSE),
        FieldBitfield("MUNSTKERR", 3, 1, Some("Indicates if a derived MemManage fault occurred on exception return."), FALSE),
        FieldBitfield("DACCVIOL", 1, 1, Some("Data access violation. The MMFAR shows the data address that the load or store tried to access."), FALSE),
        FieldBitfield("IACCVIOL", 0, 1, Some("MPU or Execute Never (XN) default memory map access violation on an instruction fetch has occurred."), FALSE),
        FieldBitfield("BFSR", 8, 8, Some("BusFault Status Register"), TRUE),
        FieldBitfield("BFARVALID", 15, 1, Some("Indicates if BFAR has valid contents."), FALSE),
        FieldBitfield("LSPERR", 13, 1, Some("Indicates if a bus fault occurred during FP lazy state preservation."), FALSE),
        FieldBitfield("STKERR", 12, 1, Some("Indicates if a derived bus fault has occurred on exception entry."), FALSE),
        FieldBitfield("UNSTKERR", 11, 1, Some("Indicates if a derived bus fault has occurred on exception return."), FALSE),
        FieldBitfield("IMPRECISERR", 10, 1, Some("Indicates if imprecise data access error has occurred."), FALSE),
        FieldBitfield("PRECISERR", 9, 1, Some("Indicates if a precise data access error has occurred, and the processor has written the faulting address to the BFAR."), FALSE),
        FieldBitfield("IBUSERR", 8, 1, Some("Indicates if a bus fault on an instruction prefetch has occurred. The fault is signaled only if the instruction is issued."), FALSE),
        FieldBitfield("UFSR", 16, 16, Some("UsageFault Status Register"), TRUE),
        FieldBitfield("DIVBYZERO", 25, 1, Some("Indicates if divide by zero error has occurred."), FALSE),
        FieldBitfield("UNALIGNED", 24, 1, Some("Indicates if unaligned access error has occurred."), FALSE),
        FieldBitfield("NOCP", 19, 1, Some("Indicates if a coprocessor access error has occurred. This shows that the coprocessor is disabled or not present."), FALSE),
        FieldBitfield("INVPC", 18, 1, Some("Indicates if an integrity check error has occurred on EXC_RETURN."), FALSE),
        FieldBitfield("INVSTATE", 17, 1, Some("Indicates if instruction executed with invalid EPSR.T or EPSR.IT field."), FALSE),
        FieldBitfield("UNDEFINSTR", 16, 1, Some("Indicates if the processor has attempted to execute an undefined instruction."), FALSE) >>)>>,
    <<None, RegisterDef("HFSR", "HardFault Status Register", Word(\HE000, \HED2C), 4, <<
        FieldBitfield("DEBUGEVT", 31, 1, Some("Indicates when a Debug event has occurred."), FALSE),
        FieldBitfield("FORCED", 30, 1, Some("Indicates that a fault with configurable priority has been escalated to a HardFault exception."), FALSE),
        FieldBitfield("VECTTBL", 1, 1, Some("Indicates when a fault has occurred because of a vector table read error on exception processing."), FALSE) >>)>>,
    <<None, RegisterDef("DFSR", "Debug Fault Status Register", Word(\HE000, \HED30), 4, <<
        FieldBitfieldEnum("EXTERNAL", 4, 1, <<<<0, TRUE, "No external debug request debug event", None>>, <<1, FALSE, "External debug request debug event", None>>>>, Some("Indicates a debug event generated because of the assertion of an external debug request")),
        FieldBitfieldEnum("VCATCH", 3, 1, <<<<0, TRUE, "No Vector catch triggered", None>>, <<1, FALSE, "Vector catch triggered", None>>>>, Some("Indicates triggering of a Vector catch")),
        FieldBitfieldEnum("DWTTRAP", 2, 1, <<<<0, TRUE, "No debug events generated by the DWT", None>>, <<1, FALSE, "At least one debug event generated by the DWT", None>>>>, Some("Indicates a debug event generated by the DWT")),
        FieldBitfieldEnum("BKPT", 1, 1, <<<<0, TRUE, "No breakpoint debug event", None>>, <<1, FALSE, "At least one breakpoint debug event", None>>>>, Some("Indicates a debug event generated by BKPT instruction execution or a breakpoint match in FPB")),
        FieldBitfieldEnum("HALTED", 0, 1, <<<<0, TRUE, "No halt request debug event", None>>, <<1, FALSE, "Halt request debug event", None>>>>, Some("Indicates a debug event generated by either C_HALT, C_STEP or DEMCR.MON_STEP")) >>)>>,
    <<None, RegisterDef("MMFAR", "MemManage Fault Address Register", Word(\HE000, \HED34), 4, NoFields)>>,
    <<None, RegisterDef("BFAR", "BusFault Address Register", Word(\HE000, \HED38), 4, NoFields)>>,
    <<Some(<<"M", "3", ",", "M", "4">>), RegisterDef("AFSR", "Auxiliary Fault Status Register", Word(\HE000, \HED3C), 4, <<
        FieldBitfield("IMPDEF", 0, 32, Some("Implemention defined"), FALSE) >>)>>,
    <<None, RegisterDef("CPACR", "Coprocessor Access Control Register", Word(\HE000, \HED88), 4, <<
        FieldBitfieldEnum("CP0", 0, 2, CPACR_enum_fields, Some("Access privileges for coprocessor 0")),
        FieldBitfieldEnum("CP1", 2, 2, CPACR_enum_fields, Some("Access privileges for coprocessor 1")),
        FieldBitfieldEnum("CP2", 4, 2, CPACR_enum_fields, Some("Access privileges for coprocessor 2")),
        FieldBitfieldEnum("CP3", 6, 2, CPACR_enum_fields, Some("Access privileges for coprocessor 3")),
        FieldBitfieldEnum("CP4", 8, 2, CPACR_enum_fields, Some("Access privileges for coprocessor 4")),
        FieldBitfieldEnum("CP5", 10, 2, CPACR_enum_fields, Some("Access privileges for coprocessor 5")),
        FieldBitfieldEnum("CP6", 12, 2, CPACR_enum_fields, Some("Access privileges for coprocessor 6")),
        FieldBitfieldEnum("CP7", 14, 2, CPACR_enum_fields, Some("Access privileges for coprocessor 7")),
        FieldBitfieldEnum("CP10", 20, 2, CPACR_enum_fields, Some("Access privileges for coprocessor 10")),
        FieldBitfieldEnum("CP11", 22, 2, CPACR_enum_fields, Some("Access privileges for coprocessor 11")) >>)>> >>)

AUX_regs(model) ==
  filt(model, <<
    <<None, RegisterDef("ICTR", "Interrupt Controller Type Register", Word(\HE000, \HE004), 4, <<
        FieldBitfieldMap("INTLINESNUM", 0, 4, Some("The total number of interrupt lines supported, as 32*(1+N)")) >>)>>,
    <<Some(<<"M", "3">>), RegisterDef("ACTLR - M3", "Auxiliary Control Register - Cortex M3", Word(\HE000, \HE008), 4, <<
        FieldBitfield("DISFOLD", 2, 1, None, FALSE),
        FieldBitfield("DISDEFWBUF", 1, 1, None, FALSE),
        FieldBitfield("DISMCYCINT", 0, 1, None, FALSE) >>)>>,
    <<Some(<<"M", "4">>), RegisterDef("ACTLR - M4", "Auxiliary Control Register - Cortex M4", Word(\HE000, \HE008), 4, <<
        FieldBitfield("DISOOFP", 9, 1, None, FALSE),
        FieldBitfield("DISFPCA", 8, 1, None, FALSE),
        FieldBitfield("DISFOLD", 2, 1, None, FALSE),
        FieldBitfield("DISDEFWBUF", 1, 1, None, FALSE),
        FieldBitfield("DISMCYCINT", 0, 1, None, FALSE) >>)>>,
    <<Some(<<"M", "7">>), RegisterDef("ACTLR - M7", "Auxiliary Control Register - Cortex M7", Word(\HE000, \HE008), 4, <<
        FieldBitfield("DISFPUISSOPT", 28, 1, None, FALSE),
        FieldBitfield("DISCRITAXIRUW", 27, 1, None, FALSE),
        FieldBitfield("DISDYNADD", 26, 1, None, FALSE),
        FieldBitfield("DISISSCH1", 21, 5, None, TRUE),
        FieldBitfieldEnum("    VFP", 25, 1, <<<<0, TRUE, "Normal operation", None>>, <<1, FALSE, "might not be issued in channel 1.", None>>>>, Some("VFP")),
        FieldBitfieldEnum("    MAC and MUL", 24, 1, <<<<0, TRUE, "Normal operation", None>>, <<1, FALSE, "might not be issued in channel 1.", None>>>>, Some("Integer MAC and MUL")),
        FieldBitfieldEnum("    Loads to PC", 23, 1, <<<<0, TRUE, "Normal operation", None>>, <<1, FALSE, "might not be issued in channel 1.", None>>>>, Some("Loads to PC")),
        FieldBitfieldEnum("    Indirect branches", 22, 1, <<<<0, TRUE, "Normal operation", None>>, <<1, FALSE, "might not be issued in channel 1.", None>>>>, Some("Indirect branches, but not loads to PC")),
        FieldBitfieldEnum("    Direct branches", 21, 1, <<<<0, TRUE, "Normal operation", None>>, <<1, FALSE, "might not be issued in channel 1.", None>>>>, Some("Direct branches")),
        FieldBitfield("DISDI", 16, 5, None, TRUE),
        FieldBitfieldEnum("    VFP", 20, 1, <<<<0, TRUE, "Normal operation", None>>, <<1, FALSE, "Dual issue disabled", Some("Nothing can be dual-issued when this instruction type is in channel 0.")>>>>, Some("VFP")),
        FieldBitfieldEnum("    Integer MAC and MUL", 19, 1, <<<<0, TRUE, "Normal operation", None>>, <<1, FALSE, "Dual issue disabled", Some("Nothing can be dual-issued when this instruction type is in channel 0.")>>>>, Some("Integer MAC and MUL")),
        FieldBitfieldEnum("    Loads to PC", 18, 1, <<<<0, TRUE, "Normal operation", None>>, <<1, FALSE, "Dual issue disabled", Some("Nothing can be dual-issued when this instruction type is in channel 0.")>>>>, Some("Loads to PC")),
        FieldBitfieldEnum("    Indirect branches", 17, 1, <<<<0, TRUE, "Normal operation", None>>, <<1, FALSE, "Dual issue disabled", Some("Nothing can be dual-issued when this instruction type is in channel 0.")>>>>, Some("Indirect branches, but not loads to PC")),
        FieldBitfieldEnum("    Direct branches", 16, 1, <<<<0, TRUE, "Normal operation", None>>, <<1, FALSE, "Disabled", None>>>>, Some("Direct branches")),
        FieldBitfield("DISCRITAXIRUR", 15, 1, None, FALSE),
        FieldBitfield("DISBTACALLOC", 14, 1, None, FALSE),
        FieldBitfield("DISBTACREAD", 13, 1, None, FALSE),
        FieldBitfield("DISITMATBFLUSH", 12, 1, None, FALSE),
        FieldBitfield("DISRAMODE", 11, 1, None, FALSE),
        FieldBitfield("FPEXCODIS", 10, 1, None, FALSE),
        FieldBitfield("DISFOLD", 2, 1, None, FALSE) >>)>> >>)

\* the FPCAR field declared one nibble too wide: bits 4..32
get_fpu_regs_wide ==
  <<
    RegisterDef("FPCCR", "Floating Point Context Control Register", Word(\HE000, \HEF34), 4, <<
        FieldBitfield("ASPEN", 31, 1, Some("When this bit is set to 1, execution of a floating-point instruction sets the CONTROL.FPCA bit to 1"), FALSE),
        FieldBitfield("LSPEN", 30, 1, Some("Enables lazy context save of FP state"), FALSE),
        FieldBitfield("MONRDY", 8, 1, Some("Indicates whether the software executing when the processor allocated the FP stack frame was able to set the DebugMonitor exception to pending"), FALSE),
        FieldBitfield("BFRDY", 6, 1, Some("Indicates whether the software executing when the processor allocated the FP stack frame was able to set the BusFault exception to pending"), FALSE),
        FieldBitfield("MMRDY", 5, 1, Some("Indicates whether the software executing when the processor allocated the FP stack frame was able to set the MemManage exception to pending"), FALSE),
        FieldBitfield("HFRDY", 4, 1, Some("Indicates whether the software executing when the processor allocated the FP stack frame was able to set the HardFault exception to pending"), FALSE),
        FieldBitfield("THREAD", 3, 1, Some("Indicates the processor mode when it allocated the FP stack frame"), FALSE),
        FieldBitfield("USER", 1, 1, Some("Indicates the privilege level of the software executing when the processor allocated the FP stack frame"), FALSE),
        FieldBitfield("LSPACT", 0, 1, Some("Indicates whether Lazy preservation of the FP state is active"), FALSE) >>),
    RegisterDef("FPCAR", "Floating Point Context Address Register", Word(\HE000, \HEF38), 4, <<
        FieldBitfield("FPCAR", 4, 29, Some("The location of the unpopulated floating-point register space allocated on an exception stack frame."), FALSE) >>),
    RegisterDef("FPDSCR", "Floating Point Default Status Control Register", Word(\HE000, \HEF3C), 4, <<
        FieldBitfield("AHP", 26, 1, Some("Default value for FPSCR.AHP"), FALSE),
        FieldBitfield("DN", 25, 1, Some("Default value for FPSCR.DN"), FALSE),
        FieldBitfield("FZ", 24, 1, Some("Default value for FPSCR.FZ"), FALSE),
        FieldBitfield("RMode", 22, 2, Some("Default value for FPSCR.RMode"), FALSE) >>),
    RegisterDef("MVFR0", "Media and FP Feature Register 0", Word(\HE000, \HEF40), 4, <<
        FieldBitfieldEnum("FP rounding modes", 28, 4, <<<<0, TRUE, "Not supported", None>>, <<1, TRUE, "All rounding modes supported.", None>>>>, Some("Indicates the rounding modes supported by the FP floating-point hardware.")),
        FieldBitfieldEnum("Short vectors", 24, 4, <<<<0, TRUE, "Not supported", None>>, <<1, FALSE, "Supported", None>>>>, None),
        FieldBitfieldEnum("Square root", 20, 4, <<<<0, TRUE, "Not supported", None>>, <<1, FALSE, "Supported", None>>>>, None),
        FieldBitfieldEnum("Divide", 16, 4, <<<<0, TRUE, "Not supported", None>>, <<1, FALSE, "Supported", None>>>>, None),
        FieldBitfieldEnum("FP exception trapping", 12, 4, <<<<0, TRUE, "Not supported", None>>>>, None),
        FieldBitfieldEnum("Double-precision", 8, 4, <<<<0, TRUE, "Not supported", None>>, <<2, FALSE, "Supported", None>>>>, None),
        FieldBitfieldEnum("Single-precision", 4, 4, <<<<0, TRUE, "Not supported", None>>, <<2, FALSE, "Supported.", Some("FP adds an instruction to load a single-precision floating-point constant, and conversions between single-precision and fixed-point values.")>>>>, Some("Indicates the hardware support for FP single-precision operations.")),
        FieldBitfieldEnum("A_SIMD registers", 0, 4, <<<<0, TRUE, "Not supported", None>>, <<1, FALSE, "Supported, 16 x 64-bit registers.", None>>>>, None) >>),
    RegisterDef("MVFR1", "Media and FP Feature Register 1", Word(\HE000, \HEF44), 4, <<
        FieldBitfieldEnum("FP fused MAC", 28, 4, <<<<0, TRUE, "Not supported", None>>, <<1, FALSE, "Supported", None>>>>, None),
        FieldBitfieldEnum("FP HPFP", 24, 4, <<<<0, TRUE, "Not supported", None>>, <<1, FALSE, "Supported half-single", Some("Supports conversion between half-precision and single-precision.")>>, <<2, FALSE, "Supported half-single-double", Some("Supports conversion between half-precision and single-precision0b0001, and also supports conversion between half-precision and double-precision.")>>>>, Some("Floating Point half-precision and double-precision. Indicates whether the FP extension implements half-precision and double-precision floating-point conversion instructions.")),
        FieldBitfieldEnum("D_NaN mode", 4, 4, <<<<0, TRUE, "Not supported", None>>, <<1, FALSE, "Hardware supports propagation of NaN values.", None>>>>, Some("Indicates whether the FP hardware implementation supports only the Default NaN mode.")),
        FieldBitfieldEnum("FtZ mode", 0, 4, <<<<0, TRUE, "Not supported", None>>, <<1, FALSE, "Hardware supports full denormalized number arithmetic.", None>>>>, Some("Indicates whether the FP hardware implementation supports only the Flush-to-zero mode of operation.")) >>),
    RegisterDef("MVFR2", "Media and FP Feature Register 2", Word(\HE000, \HEF48), 4, <<
        FieldBitfieldEnum("VFP_Misc", 4, 4, <<<<0, TRUE, "No support for miscellaneous features.", None>>, <<4, FALSE, "Support for miscellaneous features.", Some("Support for floating-point selection, floating-point conversion to integer with direct rounding modes, floating-point round to integral floating-point, and floating-point maximum number and minimum number.")>>>>, Some("Indicates the hardware support for FP miscellaneous features")) >>) >>

get_fpu_regs ==
  <<
    RegisterDef("FPCCR", "Floating Point Context Control Register", Word(\HE000, \HEF34), 4, <<
        FieldBitfield("ASPEN", 31, 1, Some("When this bit is set to 1, execution of a floating-point instruction sets the CONTROL.FPCA bit to 1"), FALSE),
        FieldBitfield("LSPEN", 30, 1, Some("Enables lazy context save of FP state"), FALSE),
        FieldBitfield("MONRDY", 8, 1, Some("Indicates whether the software executing when the processor allocated the FP stack frame was able to set the DebugMonitor exception to pending"), FALSE),
        FieldBitfield("BFRDY", 6, 1, Some("Indicates whether the software executing when the processor allocated the FP stack frame was able to set the BusFault exception to pending"), FALSE),
        FieldBitfield("MMRDY", 5, 1, Some("Indicates whether the software executing when the processor allocated the FP stack frame was able to set the MemManage exception to pending"), FALSE),
        FieldBitfield("HFRDY", 4, 1, Some("Indicates whether the software executing when the processor allocated the FP stack frame was able to set the HardFault exception to pending"), FALSE),
        FieldBitfield("THREAD", 3, 1, Some("Indicates the processor mode when it allocated the FP stack frame"), FALSE),
        FieldBitfield("USER", 1, 1, Some("Indicates the privilege level of the software executing when the processor allocated the FP stack frame"), FALSE),
        FieldBitfield("LSPACT", 0, 1, Some("Indicates whether Lazy preservation of the FP state is active"), FALSE) >>),
    RegisterDef("FPCAR", "Floating Point Context Address Register", Word(\HE000, \HEF38), 4, <<
        FieldBitfield("FPCAR", 2, 28, Some("The location of the unpopulated floating-point register space allocated on an exception stack frame."), FALSE) >>),
    RegisterDef("FPDSCR", "Floating Point Default Status Control Register", Word(\HE000, \HEF3C), 4, <<
        FieldBitfield("AHP", 26, 1, Some("Default value for FPSCR.AHP"), FALSE),
        FieldBitfield("DN", 25, 1, Some("Default value for FPSCR.DN"), FALSE),
        FieldBitfield("FZ", 24, 1, Some("Default value for FPSCR.FZ"), FALSE),
        FieldBitfield("RMode", 22, 2, Some("Default value for FPSCR.RMode"), FALSE) >>),
    RegisterDef("MVFR0", "Media and FP Feature Register 0", Word(\HE000, \HEF40), 4, <<
        FieldBitfieldEnum("FP rounding modes", 28, 4, <<<<0, TRUE, "Not supported", None>>, <<1, TRUE, "All rounding modes supported.", None>>>>, Some("Indicates the rounding modes supported by the FP floating-point hardware.")),
        FieldBitfieldEnum("Short vectors", 24, 4, <<<<0, TRUE, "Not supported", None>>, <<1, FALSE, "Supported", None>>>>, None),
        FieldBitfieldEnum("Square root", 20, 4, <<<<0, TRUE, "Not supported", None>>, <<1, FALSE, "Supported", None>>>>, None),
        FieldBitfieldEnum("Divide", 16, 4, <<<<0, TRUE, "Not supported", None>>, <<1, FALSE, "Supported", None>>>>, None),
        FieldBitfieldEnum("FP exception trapping", 12, 4, <<<<0, TRUE, "Not supported", None>>>>, None),
        FieldBitfieldEnum("Double-precision", 8, 4, <<<<0, TRUE, "Not supported", None>>, <<2, FALSE, "Supported", None>>>>, None),
        FieldBitfieldEnum("Single-precision", 4, 4, <<<<0, TRUE, "Not supported", None>>, <<2, FALSE, "Supported.", Some("FP adds an instruction to load a single-precision floating-point constant, and conversions between single-precision and fixed-point values.")>>>>, Some("Indicates the hardware support for FP single-precision operations.")),
        FieldBitfieldEnum("A_SIMD registers", 0, 4, <<<<0, TRUE, "Not supported", None>>, <<1, FALSE, "Supported, 16 x 64-bit registers.", None>>>>, None) >>),
    RegisterDef("MVFR1", "Media and FP Feature Register 1", Word(\HE000, \HEF44), 4, <<
        FieldBitfieldEnum("FP fused MAC", 28, 4, <<<<0, TRUE, "Not supported", None>>, <<1, FALSE, "Supported", None>>>>, None),
        FieldBitfieldEnum("FP HPFP", 24, 4, <<<<0, TRUE, "Not supported", None>>, <<1, FALSE, "Supported half-single", Some("Supports conversion between half-precision and single-precision.")>>, <<2, FALSE, "Supported half-single-double", Some("Supports conversion between half-precision and single-precision0b0001, and also supports conversion between half-precision and double-precision.")>>>>, Some("Floating Point half-precision and double-precision. Indicates whether the FP extension implements half-precision and double-precision floating-point conversion instructions.")),
        FieldBitfieldEnum("D_NaN mode", 4, 4, <<<<0, TRUE, "Not supported", None>>, <<1, FALSE, "Hardware supports propagation of NaN values.", None>>>>, Some("Indicates whether the FP hardware implementation supports only the Default NaN mode.")),
        FieldBitfieldEnum("FtZ mode", 0, 4, <<<<0, TRUE, "Not supported", None>>, <<1, FALSE, "Hardware supports full denormalized number arithmetic.", None>>>>, Some("Indicates whether the FP hardware implementation supports only the Flush-to-zero mode of operation.")) >>),
    RegisterDef("MVFR2", "Media and FP Feature Register 2", Word(\HE000, \HEF48), 4, <<
        FieldBitfieldEnum("VFP_Misc", 4, 4, <<<<0, TRUE, "No support for miscellaneous features.", None>>, <<4, FALSE, "Support for miscellaneous features.", Some("Support for floating-point selection, floating-point conversion to integer with direct rounding modes, floating-point round to integral floating-point, and floating-point maximum number and minimum number.")>>>>, Some("Indicates the hardware support for FP miscellaneous features")) >>) >>

\* the SCB section built without the model
get_scb_regs_unfiltered(model) ==
  << <<"SCB", SCB_regs(None)>>, <<"AUX", AUX_regs(model)>> >>

\* the sections in the opposite order, as from an unordered dictionary
get_scb_regs_swapped(model) ==
  << <<"AUX", AUX_regs(model)>>, <<"SCB", SCB_regs(model)>> >>

\* the register table of "arm scb": sections in dictionary order
get_scb_regs(model) ==
  << <<"SCB", SCB_regs(model)>>, <<"AUX", AUX_regs(model)>> >>

\* lambda of ICTR.INTLINESNUM: "%d vectors" % (min(32*(v+1), 496),)
INTLINESNUM_label(v) ==
  ToString(IF 32 * (v + 1) < 496 THEN 32 * (v + 1) ELSE 496) \o " vectors"

\* ---------------------------------------------------------------------
\* The target
\* ---------------------------------------------------------------------

CPUID_ADDR == Word(\HE000, \HED00)

RECURSIVE AddrsOf(_)
AddrsOf(regs) ==
  IF Len(regs) = 0 THEN {} ELSE {regs[1].addr} \cup AddrsOf(Tail(regs))

\* every address a command can read
Addrs ==
  {CPUID_ADDR} \cup AddrsOf(SCB_regs(None)) \cup AddrsOf(AUX_regs(None)) \cup AddrsOf(get_fpu_regs)

\* CPUID values of the targets: the five known cores with variant,
\* architecture and revision bits set, an unknown part number, a foreign
\* implementer with a known part number
CpuidValues ==
  { Word(\H410C, \HC200), Word(\H412F, \HC231), Word(\H410F, \HC241),
    Word(\H411F, \HC270), Word(\H410F, \HD214), Word(\H410F, \HC250),
    Word(\H420F, \HC240) }

RawWord(i) == Word((i * 65535) % 65536, (i * 65535) % 65536)

RawValues == {RawWord(i) : i \in 0..MaxRaw}

\* memory images: a CPUID value and a raw value in every other register
Images ==
  {[a \in Addrs |-> IF a = CPUID_ADDR THEN c ELSE r] : c \in CpuidValues, r \in RawValues}

\* sets of addresses whose read fails: none (halted, mapped), the CPUID
\* register, a register in the middle of each dump
FailModes ==
  { {}, {CPUID_ADDR}, {Word(\HE000, \HED28), Word(\HE000, \HEF40)} }

\* ---------------------------------------------------------------------
\* Command front end and register dump
\* ---------------------------------------------------------------------

\* modifiers registered by ArmToolsSCB.__init__
SCB_mods == << <<"h", "descr">>, <<"a", "all">>, <<"b", "binary">>, <<"f", "force">> >>

\* the modifiers of "arm scb" registered for "arm fpu" as well
FPU_mods_force ==
  << <<"h", "descr">>, <<"a", "all">>, <<"b", "binary">>, <<"f", "force">> >>

\* modifiers registered by ArmToolsFPU.__init__
FPU_mods == << <<"h", "descr">>, <<"a", "all">>, <<"b", "binary">> >>

\* modifier strings a user types: well formed, with an unregistered letter,
\* without the slash, with a second slash
ArgumentPool ==
  { <<>>, <<"/">>, <<"a">>,
    <<"/", "h">>, <<"/", "a">>, <<"/", "b">>, <<"/", "f">>, <<"/", "x">>,
    <<"/", "a", "b">>, <<"/", "a", "f">>, <<"/", "h", "f">>, <<"/", "a", "x">>,
    <<"/", "a", "/">>, <<"/", "b", "b">>,
    <<"/", "h", "a", "b">>, <<"/", "a", "b", "f">>,
    <<"/", "h", "a", "b", "f">> }

Arguments == {s \in ArgumentPool : Len(s) <= MaxArgLen}

\* the option dictionary of a modifier string "/<letters>", every letter a
\* registered modifier; None for anything else
process_args(mods, argument) ==
  LET letters == {mods[i][1] : i \in 1..Len(mods)}
      names   == {mods[i][2] : i \in 1..Len(mods)}
  IN  IF Len(argument) = 0 THEN Some([n \in names |-> FALSE])
      ELSE IF argument[1] = "/" /\ \A i \in 2..Len(argument) : argument[i] \in letters
      THEN Some([n \in names |->
                   \E i \in 1..Len(mods) : mods[i][2] = n /\ In(mods[i][1], Tail(argument))])
      ELSE None

\* one line of console output or one target access
Event(kind, reg, name, word, text, label) ==
  [kind |-> kind, reg |-> reg, name |-> name, word |-> word, text |-> text, label |-> label]

Line(name, text) == Event("print", "", name, Word(0, 0), text, None)

\* the usage text of the command
print_help(command) == Event("help", "", command, Word(0, 0), <<>>, None)

\* the value read at addr, None when the read raises
read_reg(memory, failing, addr, size) ==
  IF addr \in failing THEN None ELSE Some(memory[addr])

ReadEvent(addr, size, r) ==
  Event(IF IsNone(r) THEN "read_error" ELSE "read", "", ToString(size), addr, <<>>, None)

\* the enumeration entry a field value resolves to: the first entry whose
\* match value equals it, the computed label of a mapped field, else None
match(f, val) ==
  IF f.kind = "map" THEN Some(<<val[2], FALSE, INTLINESNUM_label(val[2]), None>>)
  ELSE IF \E i \in 1..Len(f.enum) : val = Word(0, f.enum[i][1])
  THEN Some(f.enum[CHOOSE i \in 1..Len(f.enum) :
                     /\ val = Word(0, f.enum[i][1])
                     /\ \A j \in 1..(i - 1) : val # Word(0, f.enum[j][1])])
  ELSE None

\* a field is left out when its value resolves to an entry flagged default,
\* unless the field is flagged always or every field was asked for
suppressed(f, val, all) ==
  /\ ~all
  /\ ~f.always
  /\ ~IsNone(match(f, val))
  /\ Val(match(f, val))[2]

\* the lines printed for one field of a register holding raw
field_lines(reg, f, raw, descr, base, all) ==
  LET val == extract(raw, f.offset, f.width)
      e   == match(f, val)
  IN  IF suppressed(f, val, all) THEN <<>>
      ELSE <<Event("field", reg.name, f.name, val, format_int(val, f.width, base),
                   IF IsNone(e) THEN None ELSE Some(Val(e)[3]))>>
           \o (IF descr /\ ~IsNone(f.descr)
               THEN <<Event("descr", reg.name, f.name, val, <<>>, f.descr)>> ELSE <<>>)
           \o (IF descr /\ ~IsNone(e) /\ ~IsNone(Val(e)[4])
               THEN <<Event("descr", reg.name, f.name, val, <<>>, Val(e)[4])>> ELSE <<>>)

RECURSIVE fields_lines(_, _, _, _, _, _)
fields_lines(reg, fields, raw, descr, base, all) ==
  IF Len(fields) = 0 THEN <<>>
  ELSE field_lines(reg, fields[1], raw, descr, base, all)
       \o fields_lines(reg, Tail(fields), raw, descr, base, all)

\* RegisterDef.dump: read the register, print its line and its fields in
\* declared order; a failing read abandons the dump
dump(reg, memory, failing, descr, base, all) ==
  LET r == read_reg(memory, failing, reg.addr, reg.size)
  IN  <<ReadEvent(reg.addr, reg.size, r)>>
      \o (IF IsNone(r) THEN <<>>
          ELSE <<Event("reg", reg.name, reg.name, Val(r),
                       format_int(Val(r), 8 * reg.size, base), Some(reg.descr))>>
               \o fields_lines(reg, reg.fields, Val(r), descr, base, all))

\* the last entry cut short: "M3" for the Cortex-M33 key
ModelTable_short ==
  << << <<"4", "1", "0", "0", "c", "2", "0", "0">>, <<"M", "0">> >>,
     << <<"4", "1", "0", "0", "c", "2", "3", "0">>, <<"M", "3">> >>,
     << <<"4", "1", "0", "0", "c", "2", "4", "0">>, <<"M", "4">> >>,
     << <<"4", "1", "0", "0", "c", "2", "7", "0">>, <<"M", "7">> >>,
     << <<"4", "1", "0", "0", "d", "2", "1", "0">>, <<"M", "3">> >> >>

\* dictionary of the implementer/part number key to the model
ModelTable ==
  << << <<"4", "1", "0", "0", "c", "2", "0", "0">>, <<"M", "0">> >>,
     << <<"4", "1", "0", "0", "c", "2", "3", "0">>, <<"M", "3">> >>,
     << <<"4", "1", "0", "0", "c", "2", "4", "0">>, <<"M", "4">> >>,
     << <<"4", "1", "0", "0", "c", "2", "7", "0">>, <<"M", "7">> >>,
     << <<"4", "1", "0", "0", "d", "2", "1", "0">>, <<"M", "3", "3">> >> >>

\* dict.get(key, None)
Get(dict, key) ==
  IF \E i \in 1..Len(dict) : dict[i][1] = key
  THEN Some(dict[CHOOSE i \in 1..Len(dict) : dict[i][1] = key][2])
  ELSE None

\* the variant and architecture bits left in the key
detect_model_unmasked(CPUID) ==
  LET impl_partno_idx == format_int(And32(CPUID, Word(\Hffff, \Hfff0)), 32, 4)
  IN  Get(ModelTable, impl_partno_idx)

\* "unknown" as the default of the lookup instead of None
detect_model_default(CPUID) ==
  LET impl_partno_idx == format_int(And32(CPUID, Word(\Hff00, \Hfff0)), 32, 4)
  IN  IF IsNone(Get(ModelTable, impl_partno_idx))
      THEN Some(<<"u", "n", "k", "n", "o", "w", "n">>)
      ELSE Get(ModelTable, impl_partno_idx)

\* the model of a CPUID value: implementer and part number bits, as a key
detect_model(CPUID) ==
  LET impl_partno_idx == format_int(And32(CPUID, Word(\Hff00, \Hfff0)), 32, 4)
  IN  Get(ModelTable, impl_partno_idx)

\* print("SCB for model", model if model else "unknown") and the note of
\* the force modifier
header(m, force) ==
  <<Line("SCB for model", IF IsNone(m) THEN <<"u", "n", "k", "n", "o", "w", "n">> ELSE Val(m))>>
  \o (IF force THEN <<Line("(printing fields from all Cortex-M models)", <<>>)>> ELSE <<>>)

\* the force modifier forgotten: the detected model still filters
forced_ignored(m, force) == m

\* if args['force']: model = None
forced(m, force) == IF force THEN None ELSE m

\* the statements of invoke that are inside its try/except
InTry(step) == step \in {"scb_regs", "fpu_regs"}

\* ---------------------------------------------------------------------
\* State
\* ---------------------------------------------------------------------

VARIABLES
  mem,         \* target memory: address -> 32-bit word
  unreadable,  \* addresses whose read raises
  pc,          \* position of the running command, "idle" at the prompt
  args,        \* local args of invoke
  base,        \* local base of invoke
  model,       \* local model of ArmToolsSCB.invoke
  regs,        \* local regs of invoke
  sect,        \* position of the loop over regs.items()
  idx,         \* position of the loop over the registers
  cmd,         \* the command last issued
  opts,        \* the options it was issued with, None when they were rejected
  trace,       \* its target accesses and console lines, in order
  status,      \* how it ended: "ok", "help", "error" (exception left invoke)
  failed,      \* the last command if it ended in a read error, else None
  retry        \* the last command reissued one that had ended in a read error

vars == <<mem, unreadable, pc, args, base, model, regs, sect, idx, cmd, opts, trace, status, failed, retry>>

locals == <<args, base, model, regs, sect, idx>>

target == <<mem, unreadable>>

NoArgs == [n \in {} |-> FALSE]

Init ==
  /\ mem \in Images
  /\ unreadable \in FailModes
  /\ pc = "idle"
  /\ args = NoArgs
  /\ base = 0
  /\ model = None
  /\ regs = <<>>
  /\ sect = 0
  /\ idx = 0
  /\ cmd = "none"
  /\ opts = None
  /\ trace = <<>>
  /\ status = "none"
  /\ failed = None
  /\ retry = FALSE

\* the frame of invoke is left, by return or by an exception: its locals are gone
Leave(how) ==
  /\ pc' = "idle"
  /\ status' = how
  /\ failed' = IF how = "error" THEN Some(<<cmd, opts>>) ELSE None
  /\ args' = NoArgs
  /\ base' = 0
  /\ model' = None
  /\ regs' = <<>>
  /\ sect' = 0
  /\ idx' = 0

\* an exception raised at the current statement: handled by the try/except
\* of invoke if the statement is inside it, else it leaves invoke and the
\* debugger reports it
Raise(resume) ==
  IF InTry(pc)
  THEN pc' = resume /\ UNCHANGED <<locals, status, failed>>
  ELSE Leave("error")

\* the target runs, is halted, attached or detached between two commands;
\* the output of the last command no longer describes it
TargetChange ==
  /\ pc = "idle"
  /\ \/ mem' \in Images \ {mem} /\ unreadable' = unreadable
     \/ unreadable' \in FailModes \ {unreadable} /\ mem' = mem
  /\ trace' = <<>>
  /\ status' = "none"
  /\ UNCHANGED <<pc, locals, cmd, opts, failed, retry>>

\* the return after print_help missing: invoke goes on with no modifier set
Enter_noreturn(command, mods, argument, first) ==
  LET a == process_args(mods, argument)
      d == IF IsNone(a) THEN Val(process_args(mods, <<>>)) ELSE Val(a)
  IN  /\ pc = "idle"
      /\ cmd' = command
      /\ opts' = a
      /\ retry' = (failed = Some(<<command, a>>))
      /\ failed' = None
      /\ args' = d
      /\ base' = IF d["binary"] THEN 1 ELSE 4
      /\ trace' = IF IsNone(a) THEN <<print_help(command)>> ELSE <<>>
      /\ status' = "running"
      /\ pc' = first
      /\ UNCHANGED <<target, model, regs, sect, idx>>

\* what a command that ended in a read error left behind is kept by the next
Enter_stale(command, mods, argument, first) ==
  LET a == process_args(mods, argument)
  IN  /\ pc = "idle"
      /\ cmd' = command
      /\ opts' = a
      /\ retry' = (failed = Some(<<command, a>>))
      /\ failed' = None
      /\ IF IsNone(a)
         THEN /\ trace' = <<print_help(command)>>
              /\ status' = "help"
              /\ UNCHANGED <<pc, args, base>>
         ELSE /\ args' = Val(a)
              /\ base' = IF Val(a)["binary"] THEN 1 ELSE 4
              /\ trace' = IF IsNone(failed) THEN <<>> ELSE trace
              /\ status' = "running"
              /\ pc' = first
      /\ UNCHANGED <<target, model, regs, sect, idx>>

\* the modifiers of the previous invocation of the command are never
\* cleared: a flag once given stays set
Enter_sticky(command, mods, argument, first) ==
  LET a == process_args(mods, argument)
  IN  /\ pc = "idle"
      /\ cmd' = command
      /\ opts' = a
      /\ retry' = (failed = Some(<<command, a>>))
      /\ failed' = None
      /\ IF IsNone(a)
         THEN /\ trace' = <<print_help(command)>>
              /\ status' = "help"
              /\ UNCHANGED <<pc, args, base>>
         ELSE /\ args' = [n \in DOMAIN Val(a) |->
                           Val(a)[n] \/ (cmd = command /\ ~IsNone(opts) /\ Val(opts)[n])]
              /\ base' = IF args'["binary"] THEN 1 ELSE 4
              /\ trace' = <<>>
              /\ status' = "running"
              /\ pc' = first
      /\ UNCHANGED <<target, model, regs, sect, idx>>

\* process_args, print_help, base; common to both commands
Enter(command, mods, argument, first) ==
  LET a == process_args(mods, argument)
  IN  /\ pc = "idle"
      /\ cmd' = command
      /\ opts' = a
      /\ retry' = (failed = Some(<<command, a>>))
      /\ failed' = None
      /\ IF IsNone(a)
         THEN /\ trace' = <<print_help(command)>>
              /\ status' = "help"
              /\ UNCHANGED <<pc, args, base>>
         ELSE /\ args' = Val(a)
              /\ base' = IF Val(a)["binary"] THEN 1 ELSE 4
              /\ trace' = <<>>
              /\ status' = "running"
              /\ pc' = first
      /\ UNCHANGED <<target, model, regs, sect, idx>>

\* the two flags passed in each other's place
reg_dump_swapped(reg) == dump(reg, mem, unreadable, args["all"], base, args["descr"])

\* every field asked for, whatever the modifier
reg_dump_all(reg) == dump(reg, mem, unreadable, args["descr"], base, TRUE)

\* reg.dump(inf, args['descr'], base=base, all=args['all'])
reg_dump(reg) == dump(reg, mem, unreadable, args["descr"], base, args["all"])

\* ArmToolsSCB.invoke up to the selection of the inferior
ArmToolsSCB_invoke(argument) == Enter("arm scb", SCB_mods, argument, "scb_detect")

\* read CPUID, look the model up, print the header, apply the force modifier
SCB_detect ==
  LET r == read_reg(mem, unreadable, CPUID_ADDR, 4)
  IN  /\ pc = "scb_detect"
      /\ IF IsNone(r)
         THEN /\ trace' = Append(trace, ReadEvent(CPUID_ADDR, 4, r))
              /\ Raise("scb_regs")
         ELSE LET m == detect_model(Val(r))
              IN  /\ trace' = trace \o <<ReadEvent(CPUID_ADDR, 4, r)>> \o header(m, args["force"])
                  /\ model' = forced(m, args["force"])
                  /\ pc' = "scb_regs"
                  /\ UNCHANGED <<args, base, regs, sect, idx, status, failed>>
      /\ UNCHANGED <<target, cmd, opts, retry>>

\* try: regs = get_scb_regs(model); the table is built without target access
SCB_get_regs ==
  /\ pc = "scb_regs"
  /\ regs' = get_scb_regs(model)
  /\ sect' = 1
  /\ pc' = "scb_sect"
  /\ UNCHANGED <<target, args, base, model, idx, cmd, opts, trace, status, failed, retry>>

\* for sect_name, sect_regs in regs.items(): print the section heading
SCB_section ==
  /\ pc = "scb_sect"
  /\ trace' = trace \o <<Line("", <<>>), Line("registers:", <<regs[sect][1]>>)>>
  /\ IF Len(regs[sect][2]) > 0
     THEN /\ pc' = "scb_dump"
          /\ idx' = 1
          /\ UNCHANGED <<args, base, model, regs, sect, status, failed>>
     ELSE IF sect < Len(regs)
     THEN /\ sect' = sect + 1
          /\ UNCHANGED <<pc, args, base, model, regs, idx, status, failed>>
     ELSE Leave("ok")
  /\ UNCHANGED <<target, cmd, opts, retry>>

\* for reg in sect_regs: reg.dump(inf, args['descr'], base=base, all=args['all'])
SCB_dump ==
  LET reg   == regs[sect][2][idx]
      lines == reg_dump(reg)
  IN  /\ pc = "scb_dump"
      /\ trace' = trace \o lines
      /\ IF lines[1].kind = "read_error"
         THEN Raise("scb_dump")
         ELSE IF idx < Len(regs[sect][2])
         THEN /\ idx' = idx + 1
              /\ UNCHANGED <<pc, args, base, model, regs, sect, status, failed>>
         ELSE IF sect < Len(regs)
         THEN /\ pc' = "scb_sect"
              /\ sect' = sect + 1
              /\ UNCHANGED <<args, base, model, regs, idx, status, failed>>
         ELSE Leave("ok")
      /\ UNCHANGED <<target, cmd, opts, retry>>

\* ArmToolsFPU.invoke up to the selection of the inferior
ArmToolsFPU_invoke(argument) == Enter("arm fpu", FPU_mods, argument, "fpu_regs")

\* the command stores to the target: FPCCR is cleared before the dump
FPU_get_regs_write ==
  /\ pc = "fpu_regs"
  /\ trace' = Append(trace, Line("SCB FP registers:", <<>>))
  /\ regs' = get_fpu_regs
  /\ idx' = 1
  /\ pc' = "fpu_dump"
  /\ mem' = [mem EXCEPT ![Word(\HE000, \HEF34)] = Word(0, 0)]
  /\ UNCHANGED <<unreadable, args, base, model, sect, status, failed, cmd, opts, retry>>

\* print the heading; try: regs = get_fpu_regs()
FPU_get_regs ==
  /\ pc = "fpu_regs"
  /\ trace' = Append(trace, Line("SCB FP registers:", <<>>))
  /\ IF Len(get_fpu_regs) > 0
     THEN /\ regs' = get_fpu_regs
          /\ idx' = 1
          /\ pc' = "fpu_dump"
          /\ UNCHANGED <<args, base, model, sect, status, failed>>
     ELSE Leave("ok")
  /\ UNCHANGED <<target, cmd, opts, retry>>

\* for reg in regs: reg.dump(inf, args['descr'], base=base, all=args['all'])
FPU_dump ==
  LET reg   == regs[idx]
      lines == reg_dump(reg)
  IN  /\ pc = "fpu_dump"
      /\ trace' = trace \o lines
      /\ IF lines[1].kind = "read_error"
         THEN Raise("fpu_dump")
         ELSE IF idx < Len(regs)
         THEN /\ idx' = idx + 1
              /\ UNCHANGED <<pc, args, base, model, regs, sect, status, failed>>
         ELSE Leave("ok")
      /\ UNCHANGED <<target, cmd, opts, retry>>

Next ==
  \/ TargetChange
  \/ \E argument \in Arguments : ArmToolsSCB_invoke(argument)
  \/ SCB_detect
  \/ SCB_get_regs
  \/ SCB_section
  \/ SCB_dump
  \/ \E argument \in Arguments : ArmToolsFPU_invoke(argument)
  \/ FPU_get_regs
  \/ FPU_dump

Spec == Init /\ [][Next]_vars

\* ---------------------------------------------------------------------
\* Vocabulary of the properties
\* ---------------------------------------------------------------------

M0 == <<"M", "0">>

M3 == <<"M", "3">>

M4 == <<"M", "4">>

M7 == <<"M", "7">>

M33 == <<"M", "3", "3">>

Unknown == <<"u", "n", "k", "n", "o", "w", "n">>

Names(list) == [i \in 1..Len(list) |-> list[i].name]

\* the events of a trace of one kind
OfKind(tr, kind) ==
  LET Is(e) == e.kind = kind IN SelectSeq(tr, Is)

\* the target accesses of a trace
Accesses(tr) ==
  LET Is(e) == e.kind \in {"read", "read_error"} IN SelectSeq(tr, Is)

\* the command is "arm scb" and has printed its header line
Detected ==
  /\ cmd = "arm scb"
  /\ Len(trace) >= 2
  /\ trace[2].name = "SCB for model"

\* the register table is built and the dump loops run
Dumping == pc \in {"scb_sect", "scb_dump"}

\* the field names of register CCR in a list of registers
CCRFields(rs) ==
  Names(rs[CHOOSE i \in 1..Len(rs) : rs[i].name = "CCR"].fields)

\* the registers of the unfiltered table, in declaration order
FullSCB ==
  <<"CPUID", "ICSR", "VTOR", "AIRCR", "SCR", "CCR", "SHPR1", "SHPR2", "SHPR3",
    "SHCSR", "CFSR", "HFSR", "DFSR", "MMFAR", "BFAR", "AFSR", "CPACR">>

FullAUX == <<"ICTR", "ACTLR - M3", "ACTLR - M4", "ACTLR - M7">>

FullCCR ==
  <<"BP", "IC", "DC", "STKALIGN", "BFHFNMIGN", "DIV_0_TRP", "UNALIGN_TRP",
    "USERSETMPEND", "NONBASETHRDENA">>

\* ---------------------------------------------------------------------
\* Properties
\* ---------------------------------------------------------------------

\* C1: when process_args rejects the modifier string, either command
\* prints its usage help and returns: the help is the only thing in the
\* trace, there is no target read (in particular no CPUID read) and no
\* register or field line, and invoke is not running.
C1_RejectedPrintsHelpOnly ==
  (cmd # "none" /\ IsNone(opts)) =>
     /\ pc = "idle"
     /\ status \in {"help", "none"}
     /\ status = "help" => trace = <<print_help(cmd)>>
     /\ \A i \in 1..Len(trace) : trace[i].kind \notin {"read", "read_error", "reg", "field"}

C1_Witness ==
  /\ cmd = "arm fpu"
  /\ IsNone(opts)
  /\ status = "help"
  /\ trace = <<print_help("arm fpu")>>

\* the model a CPUID value stands for, from its implementer
\* (bits 31:24) and part number (bits 15:4)
C2_ModelOf(c) ==
  LET implementer == c[1] \div 256
      partno      == (c[2] \div 16) % 4096
  IN  IF implementer # \H41 THEN Unknown
      ELSE IF partno = \Hc20 THEN M0
      ELSE IF partno = \Hc23 THEN M3
      ELSE IF partno = \Hc24 THEN M4
      ELSE IF partno = \Hc27 THEN M7
      ELSE IF partno = \Hd21 THEN M33
      ELSE Unknown

\* the model name detect_model gives, "unknown" for None
C2_NameOf(c) ==
  IF IsNone(detect_model(c)) THEN Unknown ELSE Val(detect_model(c))

\* C2: the model named in the header of arm scb is a function of the
\* implementer and part number bits of the CPUID value read: 0x41/0xc20 is
\* M0, 0xc23 M3, 0xc24 M4, 0xc27 M7, 0xd21 M33, anything else unknown; and
\* changing the variant (23:20), architecture (19:16) or revision (3:0) bits
\* of the CPUID value does not change the model.
C2_ModelFromImplementerPartNo ==
  LET c == mem[CPUID_ADDR]
  IN  /\ Detected => trace[2].text = C2_ModelOf(c)
      /\ \A n \in IF pc = "scb_regs" THEN 0..15 ELSE {} :
           /\ C2_NameOf(Word((c[1] \div 256) * 256 + n * 16 + (c[1] % 16), c[2])) = C2_NameOf(c)
           /\ C2_NameOf(Word((c[1] \div 16) * 16 + n, c[2])) = C2_NameOf(c)
           /\ C2_NameOf(Word(c[1], (c[2] \div 16) * 16 + n)) = C2_NameOf(c)

C2_Witness ==
  /\ Detected
  /\ mem[CPUID_ADDR] = Word(\H410F, \HC241)
  /\ trace[2].text = M4

\* C3: when the implementer/part number is not in the lookup table, arm scb
\* prints model "unknown" and goes on to dump the unfiltered table: the
\* register set holds every register of both sections, the three ACTLR
\* variants and AFSR included, and every CCR field; a run that meets no read
\* error dumps all of them in order.
C3_UnknownModelFailsOpen ==
  (Detected /\ C2_ModelOf(mem[CPUID_ADDR]) = Unknown) =>
     /\ trace[2].text = Unknown
     /\ pc # "idle" \/ status \in {"ok", "error"}
     /\ Dumping =>
          /\ IsNone(model)
          /\ Names(regs[1][2]) = FullSCB
          /\ Names(regs[2][2]) = FullAUX
          /\ CCRFields(regs[1][2]) = FullCCR
     /\ status = "ok" => Names(OfKind(trace, "reg")) = FullSCB \o FullAUX

C3_Witness ==
  /\ Detected
  /\ mem[CPUID_ADDR] = Word(\H410F, \HC250)
  /\ ~Val(opts)["force"]
  /\ status = "ok"
  /\ Names(OfKind(trace, "reg")) = FullSCB \o FullAUX

\* the models an entry of the table is tagged with in the source
AllModels == {M0, M3, M4, M7, M33}

C4_RegTag(name) ==
  CASE name = "AFSR" -> {M3, M4}
    [] name = "ACTLR - M3" -> {M3}
    [] name = "ACTLR - M4" -> {M4}
    [] name = "ACTLR - M7" -> {M7}
    [] OTHER -> AllModels

C4_FieldTag(name) ==
  IF name \in {"BP", "IC", "DC"} THEN {M7} ELSE {M3, M7}

\* the names whose tag set contains model m
C4_Keep(names, Tag(_), m) ==
  LET Is(n) == m \in Tag(n) IN SelectSeq(names, Is)

C4_M3M7Fields ==
  {"STKALIGN", "BFHFNMIGN", "DIV_0_TRP", "UNALIGN_TRP", "USERSETMPEND", "NONBASETHRDENA"}

Range(s) == {s[i] : i \in 1..Len(s)}

\* C4: for a detected model the register set of get_scb_regs holds, in
\* declaration order, exactly the untagged entries and the entries whose
\* tag set contains the model; the CCR fields tagged "M3,M7" are in the M3
\* and M7 sets and in no other, and every untagged register is in every set.
C4_FilterByTagMembership ==
  (Dumping /\ ~IsNone(model)) =>
     /\ Val(model) = C2_ModelOf(mem[CPUID_ADDR])
     /\ Names(regs[1][2]) = C4_Keep(FullSCB, C4_RegTag, Val(model))
     /\ Names(regs[2][2]) = C4_Keep(FullAUX, C4_RegTag, Val(model))
     /\ CCRFields(regs[1][2]) = C4_Keep(FullCCR, C4_FieldTag, Val(model))
     /\ Val(model) \in {M3, M7} => C4_M3M7Fields \subseteq Range(CCRFields(regs[1][2]))
     /\ Val(model) \notin {M3, M7} => C4_M3M7Fields \cap Range(CCRFields(regs[1][2])) = {}
     /\ \A n \in Range(FullSCB \o FullAUX) :
          C4_RegTag(n) = AllModels => n \in Range(Names(regs[1][2]) \o Names(regs[2][2]))

C4_Witness ==
  /\ Dumping
  /\ model = Some(M3)
  /\ C4_M3M7Fields \subseteq Range(CCRFields(regs[1][2]))
  /\ "BP" \notin Range(CCRFields(regs[1][2]))
  /\ Names(regs[2][2]) = <<"ICTR", "ACTLR - M3">>

\* C5: on a Cortex-M4 (CPUID 0x410FC241) with modifiers a and b the header
\* names M4, the CCR fields BP, IC and DC are not in the register set, and
\* CCR is in the set and read, with a field list that is not empty.
C5_M4KeepsCCRWithFields ==
  (/\ Detected
   /\ mem[CPUID_ADDR] = Word(\H410F, \HC241)
   /\ Val(opts) = [descr |-> FALSE, all |-> TRUE, binary |-> TRUE, force |-> FALSE]) =>
     /\ trace[2].text = M4
     /\ Dumping =>
          /\ "CCR" \in Range(Names(regs[1][2]))
          /\ Range(CCRFields(regs[1][2])) \cap {"BP", "IC", "DC"} = {}
          /\ Len(CCRFields(regs[1][2])) > 0
     /\ status = "ok" => "CCR" \in Range(Names(OfKind(trace, "reg")))

\* C6: with the force modifier the register set is the unfiltered table for
\* every CPUID value, the one an unrecognized CPUID gets, registers and
\* fields in the same order, while the header names the model detected from
\* the CPUID value and is followed by the note of the modifier.
C6_ForceDumpsUnfilteredTable ==
  (Detected /\ Val(opts)["force"]) =>
     /\ trace[2].text = C2_ModelOf(mem[CPUID_ADDR])
     /\ Len(trace) >= 3 /\ trace[3].name = "(printing fields from all Cortex-M models)"
     /\ Dumping =>
          /\ regs = get_scb_regs(detect_model(Word(\H410F, \HC250)))
          /\ Names(regs[1][2]) = FullSCB
          /\ Names(regs[2][2]) = FullAUX
          /\ CCRFields(regs[1][2]) = FullCCR
     /\ status = "ok" => Names(OfKind(trace, "reg")) = FullSCB \o FullAUX

C6_Witness ==
  /\ Detected
  /\ Val(opts)["force"]
  /\ trace[2].text = M4
  /\ status = "ok"
  /\ Names(OfKind(trace, "reg")) = FullSCB \o FullAUX

\* ---------------------------------------------------------------------
\* A command run as a whole from a fresh session
\* ---------------------------------------------------------------------

IsPrefix(s, u) == Len(s) <= Len(u) /\ SubSeq(u, 1, Len(s)) = s

\* the trace ends in a failed read
Failed(tr) == Len(tr) > 0 /\ tr[Len(tr)].kind = "read_error"

RECURSIVE RunDumps(_, _, _, _)
\* the registers of a list dumped in order, up to the first failing read
RunDumps(rs, memory, failing, a) ==
  IF Len(rs) = 0 THEN <<>>
  ELSE LET l == dump(rs[1], memory, failing, a["descr"], IF a["binary"] THEN 1 ELSE 4, a["all"])
       IN  IF Failed(l) THEN l ELSE l \o RunDumps(Tail(rs), memory, failing, a)

RECURSIVE RunSections(_, _, _, _)
RunSections(secs, memory, failing, a) ==
  IF Len(secs) = 0 THEN <<>>
  ELSE LET l == RunDumps(secs[1][2], memory, failing, a)
       IN  <<Line("", <<>>), Line("registers:", <<secs[1][1]>>)>> \o l
           \o (IF Failed(l) THEN <<>> ELSE RunSections(Tail(secs), memory, failing, a))

\* the register table arm scb uses for a CPUID value
TableOf(a, c) == get_scb_regs(forced(detect_model(c), a["force"]))

\* the accesses and lines of one command issued at the prompt of a session
\* in which no command has run
Run(command, a, memory, failing) ==
  IF command = "arm fpu"
  THEN <<Line("SCB FP registers:", <<>>)>> \o RunDumps(get_fpu_regs, memory, failing, a)
  ELSE LET r == read_reg(memory, failing, CPUID_ADDR, 4)
       IN  <<ReadEvent(CPUID_ADDR, 4, r)>>
           \o (IF IsNone(r) THEN <<>>
               ELSE header(detect_model(Val(r)), a["force"])
                    \o RunSections(TableOf(a, Val(r)), memory, failing, a))

\* C7: a command reissued after it ended in a read error behaves as in a
\* fresh session: if it ends normally its reads and output are those of the
\* command run on the accessible target, nothing of the failed run among
\* them; it ends in an error again only at a read that still fails.
C7_ReissueAfterReadError ==
  retry =>
     /\ status = "ok" => trace = Run(cmd, Val(opts), mem, {})
     /\ status = "error" =>
          /\ trace = Run(cmd, Val(opts), mem, unreadable)
          /\ Failed(trace)
          /\ trace[Len(trace)].word \in unreadable
     /\ status = "running" => ~Failed(trace)

C7_Witness ==
  /\ retry
  /\ status = "ok"
  /\ cmd = "arm scb"
  /\ unreadable = {}
  /\ Len(OfKind(trace, "reg")) >= Len(FullSCB)

\* C8: a failing memory read, of CPUID or of a register in the dump loop,
\* is caught by the try/except of the command and does not leave invoke
\* uncaught.
C8_ReadErrorCaughtByCommand ==
  \A i \in 1..Len(trace) : trace[i].kind = "read_error" => status # "error"

\* C9: every step of a command leaves target memory and its readability
\* unchanged, accesses the target by reads only, and only appends to the
\* output of the running command.
C9_TargetReadOnly ==
  [][status' # "none" =>
       /\ mem' = mem
       /\ unreadable' = unreadable
       /\ status = "running" => IsPrefix(trace, trace')
       /\ \A i \in 1..Len(trace') :
            trace'[i].kind \in {"read", "read_error", "print", "help", "reg", "field", "descr"}]_vars

C9_Witness ==
  /\ cmd = "arm fpu"
  /\ status = "ok"
  /\ Len(OfKind(trace, "read")) = Len(get_fpu_regs)

RECURSIVE FieldsOf(_)
\* the <<register, field>> names declared by a list of registers, in order
FieldsOf(rs) ==
  IF Len(rs) = 0 THEN <<>>
  ELSE [i \in 1..Len(rs[1].fields) |-> <<rs[1].name, rs[1].fields[i].name>>] \o FieldsOf(Tail(rs))

\* the <<register, field>> names of the field lines of a trace, in order
FieldsIn(tr) ==
  LET f == OfKind(tr, "field") IN [i \in 1..Len(f) |-> <<f[i].reg, f[i].name>>]

\* the registers a command dumps on the current target
C10_Declared ==
  IF cmd = "arm fpu" THEN get_fpu_regs
  ELSE TableOf(Val(opts), mem[CPUID_ADDR])[1][2] \o TableOf(Val(opts), mem[CPUID_ADDR])[2][2]

\* C10: a dump with show-all lists every declared field of every register
\* it reads, for every raw value; the field lines of a dump without
\* show-all are among the field lines of the same dump with show-all.
C10_ShowAllIsSuperset ==
  (status = "ok") =>
     /\ Val(opts)["all"] => FieldsIn(trace) = FieldsOf(C10_Declared)
     /\ ~Val(opts)["all"] =>
          /\ Range(OfKind(trace, "field"))
               \subseteq Range(OfKind(Run(cmd, [Val(opts) EXCEPT !["all"] = TRUE], mem, unreadable), "field"))
          /\ Range(FieldsIn(trace)) \subseteq Range(FieldsOf(C10_Declared))

C10_Witness ==
  /\ status = "ok"
  /\ cmd = "arm scb"
  /\ Val(opts)["all"]
  /\ mem[Word(\HE000, \HED30)] = Word(0, 0)
  /\ <<"DFSR", "HALTED">> \in Range(FieldsIn(trace))
  /\ FieldsIn(trace) = FieldsOf(C10_Declared)

\* ---------------------------------------------------------------------
\* Bit-level reference for field values
\* ---------------------------------------------------------------------

\* bit k of a 32-bit word, 0 above bit 31
Bit(w, k) ==
  IF k >= 32 THEN 0
  ELSE IF k >= 16 THEN (w[1] \div Pow2(k - 16)) % 2
  ELSE (w[2] \div Pow2(k)) % 2

RECURSIVE BitSum(_, _, _, _)
\* the number whose bit j is bit from + j of w, for the n lowest j
BitSum(w, from, n, j) ==
  IF j >= n THEN 0 ELSE Bit(w, from + j) * Pow2(j) + BitSum(w, from, n, j + 1)

\* bits offset .. offset + width - 1 of raw, as a 32-bit word
RefBits(raw, offset, width) ==
  Word(IF width > 16 THEN BitSum(raw, offset + 16, width - 16, 0) ELSE 0,
       BitSum(raw, offset, IF width > 16 THEN 16 ELSE width, 0))

\* the field is printed without show-all: it is flagged always, or no
\* entry flagged default has its value
C11_Shown(f, raw) ==
  \/ f.always
  \/ ~\E i \in 1..Len(f.enum) :
        f.enum[i][2] /\ RefBits(raw, f.offset, f.width) = Word(0, f.enum[i][1])

RECURSIVE C11_Expected(_)
\* the <<register, field>> names printed without show-all for the current
\* memory, in order
C11_Expected(rs) ==
  IF Len(rs) = 0 THEN <<>>
  ELSE LET Is(f)  == C11_Shown(f, mem[rs[1].addr])
           shown == SelectSeq(rs[1].fields, Is)
       IN  [i \in 1..Len(shown) |-> <<rs[1].name, shown[i].name>>] \o C11_Expected(Tail(rs))

\* C11: without show-all a field is left out of the dump exactly when its
\* value is that of an enumeration entry flagged default and the field is
\* not flagged always: the MMFSR, BFSR and UFSR fields of CFSR and the
\* ENDIANNESS field of AIRCR are printed for every value, HALTED of DFSR is
\* printed when it is 1 and left out when it is 0.
C11_SuppressedExactlyOnDefault ==
  (status = "ok" /\ ~Val(opts)["all"]) =>
     /\ FieldsIn(trace) = C11_Expected(C10_Declared)
     /\ cmd = "arm scb" =>
          /\ {<<"CFSR", "MMFSR">>, <<"CFSR", "BFSR">>, <<"CFSR", "UFSR">>,
              <<"AIRCR", "ENDIANNESS">>} \subseteq Range(FieldsIn(trace))
          /\ (<<"DFSR", "HALTED">> \in Range(FieldsIn(trace)))
               <=> (Bit(mem[Word(\HE000, \HED30)], 0) = 1)

C11_Witness ==
  /\ status = "ok"
  /\ cmd = "arm scb"
  /\ ~Val(opts)["all"]
  /\ mem[Word(\HE000, \HED30)] = Word(0, 0)
  /\ <<"DFSR", "HALTED">> \notin Range(FieldsIn(trace))
  /\ <<"CFSR", "MMFSR">> \in Range(FieldsIn(trace))
  /\ <<"AIRCR", "ENDIANNESS">> \in Range(FieldsIn(trace))

RECURSIVE C12_Pairs(_)
\* <<raw value, field>> for every declared field of a list of registers,
\* with the raw value the register holds in the current memory
C12_Pairs(rs) ==
  IF Len(rs) = 0 THEN <<>>
  ELSE [i \in 1..Len(rs[1].fields) |-> <<mem[rs[1].addr], rs[1].fields[i]>>]
       \o C12_Pairs(Tail(rs))

\* the entries of a field's enumeration whose match value is v
C12_Matching(f, v) == {k \in 1..Len(f.enum) : Word(0, f.enum[k][1]) = v}

\* the label printed for value v of field f
C12_Label(f, v) ==
  IF f.kind = "map" THEN Some(INTLINESNUM_label(v[2]))
  ELSE IF C12_Matching(f, v) = {} THEN None
  ELSE Some(f.enum[CHOOSE k \in C12_Matching(f, v) :
                     \A j \in C12_Matching(f, v) : k <= j][3])

\* no two entries of any enumeration of a list of registers share a match
\* value
C12_Unambiguous(rs) ==
  \A r \in 1..Len(rs) : \A n \in 1..Len(rs[r].fields) :
    LET e == rs[r].fields[n].enum
    IN  \A i, j \in 1..Len(e) : e[i][1] = e[j][1] => i = j

\* C12: a field value resolves to the first entry of the field's
\* enumeration, in declaration order, whose match value equals it, and to
\* the bare number without a label when there is none: Implementer 0x41 is
\* labelled "ARM" and every other value in 0..255 has no label; in every
\* enumeration of the tables at most one entry matches a value.
C12_FirstMatchOrBareValue ==
  /\ (status = "ok" /\ Val(opts)["all"]) =>
       LET fs == OfKind(trace, "field")
           ps == C12_Pairs(C10_Declared)
       IN  /\ Len(fs) = Len(ps)
           /\ \A i \in 1..Len(ps) :
                LET f == ps[i][2]
                    v == RefBits(ps[i][1], f.offset, f.width)
                IN  /\ fs[i].label = C12_Label(f, v)
                    /\ Cardinality(C12_Matching(f, v)) <= 1
           /\ cmd = "arm scb" =>
                /\ fs[1].name = "Implementer"
                /\ fs[1].label = IF mem[CPUID_ADDR][1] \div 256 = 65
                                 THEN Some("ARM") ELSE None
  /\ pc = "scb_regs" =>
       LET all == get_scb_regs(None)
           f   == all[1][2][1].fields[1]
       IN  /\ f.name = "Implementer" /\ f.offset = 24 /\ f.width = 8
           /\ \A v \in 0..255 :
                match(f, Word(0, v)) =
                  IF v = 65 THEN Some(<<65, FALSE, "ARM", None>>) ELSE None
           /\ C12_Unambiguous(all[1][2])
           /\ C12_Unambiguous(all[2][2])
           /\ C12_Unambiguous(get_fpu_regs)

C12_Witness ==
  /\ status = "ok"
  /\ cmd = "arm scb"
  /\ Val(opts)["all"]
  /\ mem[CPUID_ADDR] = Word(\H420F, \HC240)
  /\ LET fs == OfKind(trace, "field")
     IN  /\ fs[1].name = "Implementer" /\ fs[1].label = None
         /\ \E i \in 1..Len(fs) :
              fs[i].reg = "CPUID" /\ fs[i].name = "PartNo"
              /\ fs[i].label = Some("Cortex-M4")

\* a word is below 2^width
C13_InRange(w, width) ==
  IF width >= 32 THEN w[1] < Pow2(16) /\ w[2] < Pow2(16)
  ELSE IF width > 16 THEN w[1] < Pow2(width - 16) /\ w[2] < Pow2(16)
  ELSE w[1] = 0 /\ w[2] < Pow2(width)

\* raw values every declared field is extracted from, besides the one its
\* register holds
C13_Raws == {Word(\H4100, \HC240), Word(\HA5C3, \H693C)}

\* every field of a list of registers lies inside the 32-bit word, and its
\* value is the bits offset .. offset+width-1 of the raw value
C13_FieldsFit(rs) ==
  \A r \in 1..Len(rs) : \A n \in 1..Len(rs[r].fields) :
    LET f == rs[r].fields[n]
    IN  /\ f.offset >= 0 /\ f.width >= 1 /\ f.offset + f.width <= 32
        /\ \A raw \in C13_Raws \cup {mem[rs[r].addr]} :
             /\ extract(raw, f.offset, f.width) = RefBits(raw, f.offset, f.width)
             /\ C13_InRange(extract(raw, f.offset, f.width), f.width)

\* the field name of register reg in rs has this offset and width
C13_Declares(rs, reg, name, offset, width) ==
  \E r \in 1..Len(rs) : \E n \in 1..Len(rs[r].fields) :
    /\ rs[r].name = reg /\ rs[r].fields[n].name = name
    /\ rs[r].fields[n].offset = offset /\ rs[r].fields[n].width = width

\* C13: the value of a field is (raw >> offset) & ((1 << width) - 1), it
\* lies in 0 .. 2^width - 1, and offset + width <= 32 for every field of
\* the tables, the 32-bit IMPDEF of AFSR at offset 0 and the 25-bit TBLOFF
\* of VTOR at offset 7 included; bits 24..31 of 0x4100c240 are 0x41.
C13_ExtractIsShiftAndMask ==
  /\ (status = "ok" /\ Val(opts)["all"]) =>
       LET fs == OfKind(trace, "field")
           ps == C12_Pairs(C10_Declared)
       IN  /\ Len(fs) = Len(ps)
           /\ \A i \in 1..Len(ps) :
                /\ fs[i].word = RefBits(ps[i][1], ps[i][2].offset, ps[i][2].width)
                /\ C13_InRange(fs[i].word, ps[i][2].width)
                /\ ps[i][2].offset + ps[i][2].width <= 32
  /\ (pc = "fpu_regs" /\ ~args["descr"] /\ ~args["all"]) =>
       LET all == get_scb_regs(None)
       IN  /\ C13_FieldsFit(all[1][2])
           /\ C13_FieldsFit(all[2][2])
           /\ C13_FieldsFit(get_fpu_regs)
           /\ C13_Declares(all[1][2], "AFSR", "IMPDEF", 0, 32)
           /\ C13_Declares(all[1][2], "VTOR", "TBLOFF", 7, 25)
           /\ extract(Word(\H4100, \HC240), 24, 8) = Word(0, \H41)

C13_Witness ==
  /\ status = "ok"
  /\ cmd = "arm scb"
  /\ Val(opts)["all"]
  /\ mem[CPUID_ADDR] = Word(\H412F, \HC231)
  /\ \E i \in 1..Len(trace) :
       /\ trace[i].kind = "field" /\ trace[i].reg = "AFSR"
       /\ trace[i].name = "IMPDEF" /\ trace[i].word = Word(\HFFFF, \HFFFF)
  /\ \E i \in 1..Len(trace) :
       /\ trace[i].kind = "field" /\ trace[i].reg = "VTOR"
       /\ trace[i].name = "TBLOFF" /\ trace[i].word = Word(\H01FF, \HFFFF)
  /\ \E i \in 1..Len(trace) :
       /\ trace[i].kind = "field" /\ trace[i].reg = "CPUID"
       /\ trace[i].name = "Implementer" /\ trace[i].word = Word(0, \H41)

\* memory images that hold, at every address the trace read, the value the
\* current memory holds there
C14_SameRawValues(tr) ==
  {m \in Images : \A i \in 1..Len(tr) :
     tr[i].kind \in {"read", "read_error"} => m[tr[i].word] = mem[tr[i].word]}

\* C14: the reads and the output of an invocation are a function of the
\* command, its modifiers, the raw values read and the static table: two
\* invocations with the same modifiers on targets returning the same raw
\* values give the same output and the same sequence of reads, whatever
\* was invoked before.
C14_OutputDeterminedByInputs ==
  /\ status \in {"ok", "error"} =>
       \A m \in C14_SameRawValues(trace) :
          trace = Run(cmd, Val(opts), m, unreadable)
  /\ status = "help" => trace = <<print_help(cmd)>>

C14_Witness ==
  /\ status = "ok"
  /\ cmd = "arm fpu"
  /\ Val(opts)["binary"]
  /\ mem[CPUID_ADDR] = Word(\H410F, \HC250)
  /\ Cardinality(C14_SameRawValues(trace)) > 1
  /\ Len(OfKind(trace, "reg")) = Len(get_fpu_regs)

\* the registers of "arm fpu" and their addresses, in dump order
C15_Names == <<"FPCCR", "FPCAR", "FPDSCR", "MVFR0", "MVFR1", "MVFR2">>

C15_Addrs ==
  << Word(\HE000, \HEF34), Word(\HE000, \HEF38), Word(\HE000, \HEF3C),
     Word(\HE000, \HEF40), Word(\HE000, \HEF44), Word(\HE000, \HEF48) >>

\* the addresses accessed by a trace, in order
C15_Accessed(tr) == [i \in 1..Len(Accesses(tr)) |-> Accesses(tr)[i].word]

\* C15: "arm fpu" is not filtered by model: it never reads CPUID and, for
\* every target and every accepted modifier combination, reads and dumps
\* FPCCR, FPCAR, FPDSCR, MVFR0, MVFR1, MVFR2 at 0xE000EF34 .. 0xE000EF48
\* in this order, with the same output whatever CPUID holds; it accepts
\* the modifiers h, a and b and rejects f.
C15_FPUNotModelFiltered ==
  /\ cmd = "arm fpu" =>
       /\ CPUID_ADDR \notin Range(C15_Accessed(trace))
       /\ IsPrefix(C15_Accessed(trace), C15_Addrs)
       /\ IsPrefix(Names(OfKind(trace, "reg")), C15_Names)
       /\ \A i \in 1..Len(trace) :
            trace[i].kind \in {"read", "read_error"} => trace[i].name = "4"
       /\ status = "ok" =>
            /\ C15_Accessed(trace) = C15_Addrs
            /\ Names(OfKind(trace, "reg")) = C15_Names
            /\ \A c \in CpuidValues :
                 trace = Run(cmd, Val(opts), [mem EXCEPT ![CPUID_ADDR] = c], unreadable)
       /\ ~IsNone(opts) => DOMAIN Val(opts) = {"descr", "all", "binary"}
       /\ status = "help" => IsNone(opts)
  /\ pc = "fpu_regs" =>
       /\ IsNone(process_args(FPU_mods, <<"/", "f">>))
       /\ ~IsNone(process_args(SCB_mods, <<"/", "f">>))
       /\ \A s \in {<<>>, <<"/", "h">>, <<"/", "a">>, <<"/", "b">>} :
            ~IsNone(process_args(FPU_mods, s))
       /\ \A s \in Arguments :
            (~IsNone(process_args(FPU_mods, s)) /\ Len(s) > 0) =>
               \A i \in 2..Len(s) : s[i] \in {"h", "a", "b"}

C15_Witness ==
  /\ cmd = "arm fpu"
  /\ status = "ok"
  /\ mem[CPUID_ADDR] = Word(\H410F, \HD214)
  /\ Val(opts)["all"] /\ Val(opts)["binary"]
  /\ C15_Accessed(trace) = C15_Addrs
  /\ Names(OfKind(trace, "reg")) = C15_Names

ACTLR_ADDR == Word(\HE000, \HE008)

\* the names of the registers of a list located at an address
C16_At(rs, addr) ==
  LET Is(r) == r.addr = addr IN Names(SelectSeq(rs, Is))

\* a register name that starts with ACTLR
C16_IsACTLR(name) == name \in {"ACTLR", "ACTLR - M3", "ACTLR - M4", "ACTLR - M7"}

\* C16: a tag matches a model by membership, not as a prefix or substring:
\* for a CPUID of a Cortex-M33 the register set has no ACTLR register, no
\* AFSR and no CCR field, although their tags M3 and "M3,M4" and "M3,M7"
\* contain the text M3; for a Cortex-M3 it has "ACTLR - M3" as its only
\* ACTLR register; for every recognized model at most one register of the
\* set is at 0xE000E008.
C16_TagIsNotPrefixMatch ==
  LET m == C2_ModelOf(mem[CPUID_ADDR])
  IN  /\ (Dumping /\ ~args["force"] /\ m # Unknown) =>
           LET rs == regs[1][2] \o regs[2][2]
           IN  /\ Len(C16_At(rs, ACTLR_ADDR)) <= 1
               /\ m = M33 =>
                    /\ \A i \in 1..Len(rs) :
                         ~C16_IsACTLR(rs[i].name) /\ rs[i].name # "AFSR"
                    /\ C16_At(rs, ACTLR_ADDR) = <<>>
                    /\ CCRFields(regs[1][2]) = <<>>
               /\ m = M3 =>
                    /\ C16_At(rs, ACTLR_ADDR) = <<"ACTLR - M3">>
                    /\ SelectSeq(Names(rs), C16_IsACTLR) = <<"ACTLR - M3">>
                    /\ "AFSR" \in Range(Names(rs))
      /\ (cmd = "arm scb" /\ status = "ok" /\ ~Val(opts)["force"] /\ m # Unknown) =>
           /\ Len(SelectSeq(C15_Accessed(trace), LAMBDA a : a = ACTLR_ADDR)) <= 1
           /\ m = M33 =>
                /\ ACTLR_ADDR \notin Range(C15_Accessed(trace))
                /\ \A i \in 1..Len(trace) :
                     /\ trace[i].kind = "reg" =>
                          ~C16_IsACTLR(trace[i].name) /\ trace[i].name # "AFSR"
                     /\ trace[i].kind = "field" => trace[i].reg # "CCR"

C16_Witness ==
  /\ cmd = "arm scb"
  /\ status = "ok"
  /\ ~Val(opts)["force"]
  /\ mem[CPUID_ADDR] = Word(\H410F, \HD214)
  /\ trace[2].text = M33
  /\ "CCR" \in Range(Names(OfKind(trace, "reg")))
  /\ "ICTR" \in Range(Names(OfKind(trace, "reg")))
  /\ ACTLR_ADDR \notin Range(C15_Accessed(trace))

\* the place of a register in the declaration order of the table
C17_Pos(name) ==
  CHOOSE k \in 1..Len(FullSCB \o FullAUX) : (FullSCB \o FullAUX)[k] = name

\* C17: within one "arm scb" with accepted modifiers the first target
\* access is the 4-byte read of CPUID at 0xE000ED00, made by every
\* invocation, so the header names the model of the memory as it is now;
\* the header is printed before the register table is built and before any
\* register is dumped; registers are then read and dumped one at a time in
\* declaration order, every register of section SCB before any of AUX.
C17_DetectThenDumpInOrder ==
  (cmd = "arm scb" /\ ~IsNone(opts) /\ status # "none") =>
     /\ pc = "scb_detect" <=> (status = "running" /\ trace = <<>>)
     /\ pc # "scb_detect" =>
          /\ trace[1].kind \in {"read", "read_error"}
          /\ trace[1].word = CPUID_ADDR
          /\ trace[1].name = "4"
          /\ trace[1].kind = "read_error" <=> CPUID_ADDR \in unreadable
          /\ trace[1].kind = "read" =>
               /\ trace[2].kind = "print"
               /\ trace[2].name = "SCB for model"
               /\ trace[2].text = C2_ModelOf(mem[CPUID_ADDR])
     /\ pc = "scb_regs" =>
          /\ regs = <<>>
          /\ Detected
          /\ Len(Accesses(trace)) = 1
          /\ OfKind(trace, "reg") = <<>>
     /\ regs # <<>> => Detected
     /\ \A i \in 1..Len(trace) :
          /\ trace[i].kind \in {"reg", "field", "descr"} => (i > 2 /\ Detected)
          /\ trace[i].kind = "reg" =>
               /\ trace[i - 1].kind = "read"
               /\ trace[i - 1].name = "4"
          /\ (trace[i].kind = "read" /\ i > 1) =>
               /\ i < Len(trace)
               /\ trace[i + 1].kind = "reg"
          /\ trace[i].kind = "read_error" => i = Len(trace)
     /\ LET rs == OfKind(trace, "reg")
        IN  \A i, j \in 1..Len(rs) :
              i < j =>
                /\ C17_Pos(rs[i].name) < C17_Pos(rs[j].name)
                /\ ~(rs[i].name \in Range(FullAUX) /\ rs[j].name \in Range(FullSCB))

C17_Witness ==
  /\ cmd = "arm scb"
  /\ status = "ok"
  /\ ~Val(opts)["force"]
  /\ mem[CPUID_ADDR] = Word(\H411F, \HC270)
  /\ trace[1].kind = "read" /\ trace[1].word = CPUID_ADDR
  /\ trace[2].text = M7
  /\ Names(OfKind(trace, "reg")) =
       C4_Keep(FullSCB, C4_RegTag, M7) \o <<"ICTR", "ACTLR - M7">>

====
